---- MODULE Spec2Model ----
(***************************************************************************)
(* FastMailMCPServer (src/fastmail_mcp_server.py): the session fields, the *)
(* tool handlers and the JMAP batches they post, as a state machine.  Each *)
(* tool call is an asyncio task; a task is suspended only at an await, so  *)
(* an action is the code between two awaits.  The rendered text of a       *)
(* result is kept as a record [kind, detail]: the message chosen and the   *)
(* ids / descriptions it prints.                                           *)
(***************************************************************************)
EXTENDS Integers, Sequences, FiniteSets, TLC

\* Number of tool calls the MCP server may have in flight at once.
NumTasks == 2
Tasks == 1..NumTasks

---------------------------------------------------------------------------
\* Python values

None == "<None>"
Absent == "<absent>"

\* `not v`, `if v`, `args.get(k)` on a missing key: None, "" and a missing
\* key are all falsy.
Falsy(v) == v \in {None, Absent, ""}

\* Tokens the mail service accepts, and the account it reports for each.
ValidTokens == {"t1", "t2"}
PrimaryOf(tok) == IF tok = "t1" THEN "a1" ELSE "a2"
UserOf(tok) == IF tok = "t1" THEN "u1" ELSE "u2"

\* session_data before any session reply was stored (line 22).
NoSession == [username |-> None, mail |-> None]

\* The JSON body of a 200 session reply for a token: the username and the
\* primaryAccounts entry for urn:ietf:params:jmap:mail (Absent when the
\* account has no mail capability).
SessionReply(tok, hasMail) ==
    [username |-> UserOf(tok), mail |-> IF hasMail THEN PrimaryOf(tok) ELSE Absent]

---------------------------------------------------------------------------
\* Tool arguments: one record shape for every tool, a missing key is Absent
\* (list-valued keys default to the empty list, as args.get(k, []) does).

NoArgs ==
    [apiToken |-> Absent, accountId |-> Absent,
     role |-> Absent, name |-> Absent,
     mailboxId |-> Absent, mailboxName |-> Absent,
     keyword |-> Absent, from_email |-> Absent, to_email |-> Absent,
     subject |-> Absent, hasAttachment |-> Absent,
     before |-> Absent, after |-> Absent,
     emailId |-> Absent,
     to |-> <<>>, cc |-> <<>>, bcc |-> <<>>]

\* Mailboxes of the account as the server lists them.
NameOf(id) == IF id = "M1" THEN "Inbox" ELSE "Archive"
RoleOf(id) == IF id = "M1" THEN "inbox" ELSE "archive"

\* str.lower() on the strings that occur.
Lower(s) ==
    CASE s = "Inbox" -> "inbox"
      [] s = "Archive" -> "archive"
      [] s = "In" -> "in"
      [] s = "Spam" -> "spam"
      [] OTHER -> s

\* `sub in s` on the (lower-cased) strings that occur.
Contains(sub, s) ==
    \/ sub = s
    \/ <<sub, s>> \in {<<"in", "inbox">>, <<"box", "inbox">>, <<"arch", "archive">>}

---------------------------------------------------------------------------
\* Results of a tool call, as handle_call_tool returns them.

Out(kind, detail) == [kind |-> kind, detail |-> detail]

\* except Exception as e: "Error: " + str(e)   (line 234-235)
Error(msg) == Out("Error", <<msg>>)

NotConfiguredMsg == "FastMail not configured. Use configure_fastmail first."

---------------------------------------------------------------------------
\* Batches: method_calls as the handlers build them.  A call keeps its
\* method name, label, accountId and the arguments the handlers set:
\* filter (pairs <<key, value parts>>), ids, back-references ("#arg"
\* keys) and the create map of a set call.

NoCreate == [key |-> Absent, to |-> <<>>, cc |-> <<>>, bcc |-> <<>>, rcptTo |-> <<>>]

MethodCall(name, label, acct) ==
    [name |-> name, label |-> label, accountId |-> acct,
     filter |-> {}, ids |-> <<>>, refs |-> {}, create |-> NoCreate]

\* [["Mailbox/get", {"accountId": self.account_id}, "a"]]
MailboxGetBatch(acct) == << MethodCall("Mailbox/get", "a", acct) >>

\* The two calls the other way round: Email/get ahead of the Email/query it
\* refers to.
QueryGetBatch_get_first(acct, filter) ==
    << [MethodCall("Email/get", "g", acct) EXCEPT
            !.refs = {[arg |-> "ids", resultOf |-> "q",
                       name |-> "Email/query", path |-> "/ids"]}],
       [MethodCall("Email/query", "q", acct) EXCEPT !.filter = filter] >>

\* Email/query labelled q, Email/get labelled g with "#ids" -> q /ids.
QueryGetBatch(acct, filter) ==
    << [MethodCall("Email/query", "q", acct) EXCEPT !.filter = filter],
       [MethodCall("Email/get", "g", acct) EXCEPT
            !.refs = {[arg |-> "ids", resultOf |-> "q",
                       name |-> "Email/query", path |-> "/ids"]}] >>

\* [["Email/get", {"accountId":..., "ids": [email_id], ...}, "g"]]
EmailGetBatch(acct, emailId) ==
    << [MethodCall("Email/get", "g", acct) EXCEPT !.ids = <<emailId>>] >>

\* [{"email": addr} for addr in addrs]   (lines 582-584)
Emails(addrs) == [i \in 1..Len(addrs) |-> [email |-> addrs[i]]]

\* The batch of send_email with the envelope built from the to list alone.
SendBatch_to_only(acct, a) ==
    << [MethodCall("Email/set", "e", acct) EXCEPT
            !.create = [NoCreate EXCEPT !.key = "draft", !.to = Emails(a.to),
                                        !.cc = Emails(a.cc), !.bcc = Emails(a.bcc)]],
       [MethodCall("EmailSubmission/set", "s", acct) EXCEPT
            !.refs = {[arg |-> "emailId", resultOf |-> "e",
                       name |-> "Email/set", path |-> "/created/draft/id"]},
            !.create = [NoCreate EXCEPT !.key = "submission",
                                        !.rcptTo = Emails(a.to)]] >>

\* Email/set labelled e creating "draft", EmailSubmission/set labelled s
\* creating "submission" with "#emailId" -> e /created/draft/id and
\* rcptTo = to_emails + cc_emails + bcc_emails.
SendBatch(acct, a) ==
    LET to_emails == Emails(a.to)
        cc_emails == Emails(a.cc)
        bcc_emails == Emails(a.bcc)
    IN  << [MethodCall("Email/set", "e", acct) EXCEPT
                !.create = [NoCreate EXCEPT !.key = "draft", !.to = to_emails,
                                            !.cc = cc_emails, !.bcc = bcc_emails]],
           [MethodCall("EmailSubmission/set", "s", acct) EXCEPT
                !.refs = {[arg |-> "emailId", resultOf |-> "e",
                           name |-> "Email/set", path |-> "/created/draft/id"]},
                !.create = [NoCreate EXCEPT !.key = "submission",
                                            !.rcptTo = to_emails \o cc_emails \o bcc_emails]] >>

\* The JMAP filter search_emails builds from its arguments.
EmailFilter(a) ==
    UNION {
      IF Falsy(a.mailboxId) THEN {} ELSE {<<"inMailbox", <<a.mailboxId>>>>},
      IF Falsy(a.keyword) THEN {} ELSE {<<"text", <<a.keyword>>>>},
      IF Falsy(a.from_email) THEN {} ELSE {<<"from", <<a.from_email>>>>},
      IF Falsy(a.to_email) THEN {} ELSE {<<"to", <<a.to_email>>>>},
      IF Falsy(a.subject) THEN {} ELSE {<<"subject", <<a.subject>>>>},
      IF a.hasAttachment = Absent THEN {} ELSE {<<"hasAttachment", <<a.hasAttachment>>>>},
      IF Falsy(a.before) THEN {} ELSE {<<"before", <<a.before, "T23:59:59Z">>>>},
      IF Falsy(a.after) THEN {} ELSE {<<"after", <<a.after, "T00:00:00Z">>>>} }

\* Does a posted batch carry an EmailSubmission/set call?
HasSubmission(mc) == \E i \in 1..Len(mc) : mc[i].name = "EmailSubmission/set"

---------------------------------------------------------------------------
\* Replies of the mail API.  A payload is a JSON object: keys is the set of
\* keys present, the other fields hold their values (empty when absent).
\* created / notCreated keep the insertion order of the JSON object.

Payload(keys, list, ids, created, notCreated) ==
    [keys |-> keys, list |-> list, ids |-> ids,
     created |-> created, notCreated |-> notCreated]

GetPayload(list) == Payload({"list"}, list, <<>>, <<>>, <<>>)
QueryPayload(ids) == Payload({"ids"}, <<>>, ids, <<>>, <<>>)

\* A map of a set payload: the key is missing, or it holds these entries.
NoMap == [has |-> FALSE, entries |-> <<>>]
Map(entries) == [has |-> TRUE, entries |-> entries]

Created(key, id) == [key |-> key, id |-> id, description |-> ""]
NotCreated(key, desc) == [key |-> key, id |-> "", description |-> desc]

\* A set payload with its created and notCreated maps.
SetPayload(crt, ncr) ==
    Payload((IF crt.has THEN {"created"} ELSE {}) \cup (IF ncr.has THEN {"notCreated"} ELSE {}),
            <<>>, <<>>, crt.entries, ncr.entries)

\* The payloads the server may answer a call with; rich adds the empty
\* lists and every mixture of created / notCreated.
Payloads(call, rich) ==
    CASE call.name = "Mailbox/get" ->
            {GetPayload(<<"M1", "M2">>)} \cup (IF rich THEN {GetPayload(<<>>)} ELSE {})
      [] call.name = "Email/query" ->
            {QueryPayload(<<"E1">>)} \cup (IF rich THEN {QueryPayload(<<>>)} ELSE {})
      [] call.name = "Email/get" ->
            {GetPayload(<<"E1">>)} \cup (IF rich THEN {GetPayload(<<>>)} ELSE {})
      [] call.name = "Email/set" ->
            IF rich
            THEN {SetPayload(c, n) :
                    c \in {NoMap, Map(<<>>), Map(<<Created("draft", "E9")>>)},
                    n \in {NoMap, Map(<<>>), Map(<<NotCreated("draft", "missing subject")>>)}}
            ELSE {SetPayload(Map(<<Created("draft", "E9")>>), NoMap),
                  SetPayload(Map(<<>>), Map(<<NotCreated("draft", "missing subject")>>))}
      [] OTHER ->
            IF rich
            THEN {SetPayload(c, n) :
                    c \in {NoMap, Map(<<>>), Map(<<Created("submission", "S1")>>)},
                    n \in {NoMap, Map(<<>>), Map(<<NotCreated("submission", "invalid emailId")>>)}}
            ELSE {SetPayload(Map(<<Created("submission", "S1")>>), NoMap),
                  SetPayload(Map(<<>>), Map(<<NotCreated("submission", "invalid emailId")>>))}

Entry(call, p) == [name |-> call.name, label |-> call.label, payload |-> p]

\* methodResponses answering every call of the batch, in request order.
InOrderReplies(mc, rich) ==
    IF Len(mc) = 1
    THEN {<<Entry(mc[1], p)>> : p \in Payloads(mc[1], rich)}
    ELSE {<<Entry(mc[1], p1), Entry(mc[2], p2)>> :
             p1 \in Payloads(mc[1], rich), p2 \in Payloads(mc[2], rich)}

Reverse(s) == [i \in 1..Len(s) |-> s[Len(s) + 1 - i]]
RemoveAt(s, i) == SubSeq(s, 1, i - 1) \o SubSeq(s, i + 1, Len(s))

\* The shapes of methodResponses a server may send: the entries in request
\* order, in reversed order, with one entry missing, or with one entry
\* under a label the batch did not use.
Shapes == {"inorder", "reversed", "missing", "foreign"}

Replies(mc, shapes, rich) ==
    UNION {
      IF "inorder" \in shapes THEN InOrderReplies(mc, rich) ELSE {},
      IF "reversed" \in shapes
        THEN {Reverse(r) : r \in InOrderReplies(mc, rich)} ELSE {},
      IF "missing" \in shapes
        THEN {RemoveAt(r, i) : r \in InOrderReplies(mc, rich), i \in 1..Len(mc)}
        ELSE {},
      IF "foreign" \in shapes
        THEN {[r EXCEPT ![i].label = "x"] : r \in InOrderReplies(mc, rich), i \in 1..Len(mc)}
        ELSE {} }

---------------------------------------------------------------------------
\* What each tool makes of methodResponses (mr) once the round trip is
\* over.  Python indexes from 0: result["methodResponses"][0] is mr[1].
\* An IndexError / KeyError is caught by handle_call_tool and becomes an
\* Error result carrying str(e).

IndexErrorMsg == "list index out of range"
KeyErrorMsg(k) == <<"KeyError", k>>

\* result["methodResponses"][i-1][1]["list"]: the list, or the exception.
ListAt(mr, i) ==
    IF Len(mr) < i THEN [ok |-> FALSE, err |-> Out("Error", <<IndexErrorMsg>>), list |-> <<>>]
    ELSE IF "list" \notin mr[i].payload.keys
         THEN [ok |-> FALSE, err |-> Out("Error", KeyErrorMsg("list")), list |-> <<>>]
         ELSE [ok |-> TRUE, err |-> Out("None", <<>>), list |-> mr[i].payload.list]

list_mailboxes_result(a, mr) ==
    LET got == ListAt(mr, 1)
        mailboxes == IF Falsy(a.role) THEN got.list
                     ELSE SelectSeq(got.list, LAMBDA mb : RoleOf(mb) = a.role)
    IN  IF ~got.ok THEN got.err ELSE Out("Mailboxes", mailboxes)

find_mailbox_result(a, mr) ==
    LET got == ListAt(mr, 1)
        name_search == IF a.name = Absent THEN "" ELSE Lower(a.name)
        role_search == a.role
        Match(mb) ==
            \/ ~Falsy(role_search) /\ RoleOf(mb) = role_search
            \/ ~Falsy(name_search) /\ Contains(name_search, Lower(NameOf(mb)))
        found == SelectSeq(got.list, Match)
    IN  IF ~got.ok THEN got.err
        ELSE IF found = <<>> THEN Out("NoMailboxes", <<>>)
        ELSE Out("Found", found)

\* resolve_mailbox_id after its Mailbox/get round trip: the id of the first
\* mailbox whose lower-cased name equals the lower-cased mailbox_name.
resolve_mailbox_lookup(mailbox_name, mr) ==
    LET got == ListAt(mr, 1)
        hits == SelectSeq(got.list, LAMBDA mb : Lower(NameOf(mb)) = Lower(mailbox_name))
    IN  IF ~got.ok THEN [ok |-> FALSE, err |-> got.err, id |-> None]
        ELSE IF hits = <<>>
             THEN [ok |-> FALSE, err |-> Out("Error", <<"Mailbox not found", mailbox_name>>),
                   id |-> None]
             ELSE [ok |-> TRUE, err |-> Out("None", <<>>), id |-> hits[1]]

get_emails_result(a, mr) ==
    LET got == ListAt(mr, 2)
    IN  IF ~got.ok THEN got.err
        ELSE IF got.list = <<>> THEN Out("NoEmails", <<>>)
        ELSE Out("Emails", got.list)

search_emails_result(a, mr) ==
    LET got == ListAt(mr, 2)
    IN  IF ~got.ok THEN got.err
        ELSE IF got.list = <<>> THEN Out("NoMatches", <<>>)
        ELSE Out("SearchResults", got.list)

get_email_body_result(a, mr) ==
    LET got == ListAt(mr, 1)
    IN  IF ~got.ok THEN got.err
        ELSE IF got.list = <<>> THEN Out("NotFound", <<>>)
        ELSE Out("Body", <<got.list[1]>>)

\* payload.get("notCreated") is truthy: the key is there with an entry.
HasNotCreated(p) == "notCreated" \in p.keys /\ p.notCreated # <<>>

\* send_email without its check of the Email/set payload.
send_email_result_unchecked(a, mr) ==
    IF Len(mr) < 2 THEN Out("Error", <<IndexErrorMsg>>)
    ELSE IF HasNotCreated(mr[2].payload)
         THEN Out("FailedSend", <<mr[2].payload.notCreated[1].description>>)
    ELSE IF "created" \notin mr[2].payload.keys THEN Out("Error", KeyErrorMsg("created"))
    ELSE IF mr[2].payload.created = <<>> THEN Out("Error", <<IndexErrorMsg>>)
    ELSE Out("Sent", <<mr[2].payload.created[1].id>>)

send_email_result(a, mr) ==
    IF Len(mr) < 1 THEN Out("Error", <<IndexErrorMsg>>)
    ELSE IF HasNotCreated(mr[1].payload)
         THEN Out("FailedCreate", <<mr[1].payload.notCreated[1].description>>)
    ELSE IF Len(mr) < 2 THEN Out("Error", <<IndexErrorMsg>>)
    ELSE IF HasNotCreated(mr[2].payload)
         THEN Out("FailedSend", <<mr[2].payload.notCreated[1].description>>)
    ELSE IF "created" \notin mr[2].payload.keys THEN Out("Error", KeyErrorMsg("created"))
    ELSE IF mr[2].payload.created = <<>> THEN Out("Error", <<IndexErrorMsg>>)
    ELSE Out("Sent", <<mr[2].payload.created[1].id>>)

\* The tool's result from methodResponses, by tool name.
ToolResult(name, a, mr) ==
    CASE name = "list_mailboxes" -> list_mailboxes_result(a, mr)
      [] name = "find_mailbox" -> find_mailbox_result(a, mr)
      [] name = "get_emails" -> get_emails_result(a, mr)
      [] name = "search_emails" -> search_emails_result(a, mr)
      [] name = "get_email_body" -> get_email_body_result(a, mr)
      [] OTHER -> send_email_result(a, mr)

---------------------------------------------------------------------------
\* State

VARIABLES
    api_token,      \* self.api_token
    account_id,     \* self.account_id
    session_data,   \* self.session_data
    succeeded,      \* history: has a configure call got past every failure
                    \* point and stored its account id?
    task,           \* the tool calls in flight: where each is suspended
                    \* and its locals
    returned        \* the tool call that returned in the last step, with
                    \* what it returned

vars == <<api_token, account_id, session_data, succeeded, task, returned>>

\* A task slot with no tool call in it.
IdleTask ==
    [pc |-> "idle", name |-> None, args |-> NoArgs, stage |-> None,
     method_calls |-> <<>>, hdr |-> None, posts |-> 0, subs |-> 0,
     changed |-> FALSE, peers |-> "none"]

\* Task-local history, for configure calls: changed says whether a write of
\* this call has so far altered a session field; peers says whether another
\* configure call has been in flight since this one began ("none", or
\* "overlap"), and whether such a call has failed or been cancelled
\* ("failed").

NoReturn ==
    [name |-> None, args |-> NoArgs, stage |-> None,
     method_calls |-> <<>>, http |-> "none", reply |-> <<>>,
     hdr |-> None, out |-> Out("None", <<>>), posts |-> 0, subs |-> 0,
     changed |-> FALSE, peers |-> "none"]

\* __init__ (lines 18-24)
Init ==
    /\ api_token = None
    /\ account_id = None
    /\ session_data = NoSession
    /\ succeeded = FALSE
    /\ task = [t \in Tasks |-> IdleTask]
    /\ returned = NoReturn

\* The tool call of task t ends here: cur are its locals, out is what
\* handle_call_tool returns (or the CancelledError that passes through it),
\* http the outcome of its last round trip and mr the methodResponses read.
Return(t, cur, out, http, mr) ==
    /\ task' = [u \in Tasks |->
                  IF u = t THEN IdleTask
                  ELSE IF /\ cur.name = "configure_fastmail"
                          /\ out.kind # "Configured"
                          /\ task[u].name = "configure_fastmail"
                       THEN [task[u] EXCEPT !.peers = "failed"]
                       ELSE task[u]]
    /\ returned' = [name |-> cur.name, args |-> cur.args,
                    stage |-> cur.stage, method_calls |-> cur.method_calls,
                    http |-> http, reply |-> mr, hdr |-> cur.hdr, out |-> out,
                    posts |-> cur.posts, subs |-> cur.subs,
                    changed |-> cur.changed, peers |-> cur.peers]

NewCall(name, a) == [IdleTask EXCEPT !.name = name, !.args = a, !.stage = "main"]

\* handle_call_tool (lines 215-233) runs a new tool call in a task of its
\* own; the tasks are interchangeable, so it takes the first free slot.
FreeSlot(t) ==
    /\ task[t].pc = "idle"
    /\ \A u \in Tasks : u < t => task[u].pc # "idle"

---------------------------------------------------------------------------
\* configure_fastmail

\* Lines 237-241: the token is stored, then the call waits for the client.
configure_fastmail(t, A) ==
    /\ FreeSlot(t)
    /\ \E a \in A :
        /\ api_token' = a.apiToken
        /\ task' = [u \in Tasks |->
                      IF u = t
                      THEN [NewCall("configure_fastmail", a) EXCEPT
                              !.pc = "cfg_enter",
                              !.changed = (a.apiToken # api_token),
                              !.peers = IF \A v \in Tasks : task[v].name # "configure_fastmail"
                                        THEN "none" ELSE "overlap"]
                      ELSE IF task[u].name = "configure_fastmail" /\ task[u].peers = "none"
                           THEN [task[u] EXCEPT !.peers = "overlap"]
                           ELSE task[u]]
    /\ returned' = NoReturn
    /\ UNCHANGED <<account_id, session_data, succeeded>>

\* Lines 242-245: the session GET leaves with the token stored right now.
configure_get(t) ==
    /\ task[t].pc = "cfg_enter"
    /\ task' = [task EXCEPT ![t].pc = "cfg_get", ![t].hdr = api_token]
    /\ returned' = NoReturn
    /\ UNCHANGED <<api_token, account_id, session_data, succeeded>>

\* The account id a 200 reply makes the call store (lines 253-256): the
\* supplied accountId when truthy, else the primary mail account; Absent
\* stands for the KeyError of a reply without one.
ChosenAccount(a, data) == IF ~Falsy(a.accountId) THEN a.accountId ELSE data.mail

\* Lines 247-256: the reply of the session GET.  The service answers 200
\* only to a token it accepts.
configure_response(t) ==
    /\ task[t].pc = "cfg_get"
    /\ \E http \in {"ok", "status", "exception"}, hasMail \in BOOLEAN :
        LET cur == task[t]
            data == SessionReply(cur.hdr, hasMail)
            acct == ChosenAccount(cur.args, data)
        IN  /\ http = "ok" => cur.hdr \in ValidTokens
            /\ http # "ok" => hasMail
            /\ CASE http = "exception" ->
                      /\ Return(t, cur, Error("session request failed"), http, <<>>)
                      /\ UNCHANGED <<api_token, account_id, session_data, succeeded>>
                 [] http = "status" ->
                      /\ Return(t, cur, Error("Failed to authenticate"), http, <<>>)
                      /\ UNCHANGED <<api_token, account_id, session_data, succeeded>>
                 [] OTHER ->
                      /\ session_data' = data
                      /\ IF acct = Absent
                         THEN /\ Return(t, [cur EXCEPT !.changed = @ \/ data # session_data],
                                        Out("Error", KeyErrorMsg("urn:ietf:params:jmap:mail")),
                                        http, <<>>)
                              /\ UNCHANGED <<api_token, account_id, succeeded>>
                         ELSE /\ account_id' = acct
                              /\ succeeded' = TRUE
                              /\ task' = [task EXCEPT
                                            ![t].pc = "cfg_exit",
                                            ![t].changed = @ \/ data # session_data
                                                             \/ acct # account_id]
                              /\ returned' = NoReturn
                              /\ UNCHANGED api_token

\* Lines 258-261, after the client is closed: the success message, built
\* from the fields as they are now.
configure_return(t) ==
    /\ task[t].pc = "cfg_exit"
    /\ Return(t, task[t], Out("Configured", <<account_id, session_data.username>>), "ok", <<>>)
    /\ UNCHANGED <<api_token, account_id, session_data, succeeded>>

---------------------------------------------------------------------------
\* make_jmap_request and the mail tools

\* make_jmap_request checking the token alone.
make_jmap_request_token_only(t, cur, mc) ==
    IF Falsy(api_token)
    THEN Return(t, [cur EXCEPT !.method_calls = mc], Error(NotConfiguredMsg), "none", <<>>)
    ELSE /\ task' = [task EXCEPT ![t] = [cur EXCEPT !.pc = "req_enter", !.method_calls = mc]]
         /\ returned' = NoReturn

\* Lines 263-272: the configuration check, then the call waits for the
\* client.  cur are the caller's locals, mc the batch it built.
make_jmap_request(t, cur, mc) ==
    IF Falsy(api_token) \/ Falsy(account_id)
    THEN Return(t, [cur EXCEPT !.method_calls = mc], Error(NotConfiguredMsg), "none", <<>>)
    ELSE /\ task' = [task EXCEPT ![t] = [cur EXCEPT !.pc = "req_enter", !.method_calls = mc]]
         /\ returned' = NoReturn

\* Lines 273-280: the batch is posted, with the token stored right now.
make_jmap_request_post(t) ==
    /\ task[t].pc = "req_enter"
    /\ task' = [task EXCEPT
                  ![t].pc = "req_post",
                  ![t].hdr = api_token,
                  ![t].posts = @ + 1,
                  ![t].subs = @ + (IF HasSubmission(task[t].method_calls) THEN 1 ELSE 0)]
    /\ returned' = NoReturn
    /\ UNCHANGED <<api_token, account_id, session_data, succeeded>>

\* Lines 287-289
list_mailboxes(t, A) ==
    /\ FreeSlot(t)
    /\ \E a \in A :
         make_jmap_request(t, NewCall("list_mailboxes", a), MailboxGetBatch(account_id))
    /\ UNCHANGED <<api_token, account_id, session_data, succeeded>>

\* Lines 320-322
find_mailbox(t, A) ==
    /\ FreeSlot(t)
    /\ \E a \in A :
         make_jmap_request(t, NewCall("find_mailbox", a), MailboxGetBatch(account_id))
    /\ UNCHANGED <<api_token, account_id, session_data, succeeded>>

\* The batch of get_emails for a resolved mailbox id (lines 386-398).
GetEmailsBatch(acct, mailbox_id) == QueryGetBatch(acct, {<<"inMailbox", <<mailbox_id>>>>})

\* Lines 372-400 with resolve_mailbox_id (353-363) up to the first await.
get_emails(t, A) ==
    /\ FreeSlot(t)
    /\ \E a \in A :
         IF ~Falsy(a.mailboxId)
         THEN make_jmap_request(t, NewCall("get_emails", a),
                                GetEmailsBatch(account_id, a.mailboxId))
         ELSE IF Falsy(a.mailboxName)
         THEN Return(t, NewCall("get_emails", a),
                     Error("Either mailboxId or mailboxName must be provided"), "none", <<>>)
         ELSE make_jmap_request(t, [NewCall("get_emails", a) EXCEPT !.stage = "resolve"],
                                MailboxGetBatch(account_id))
    /\ UNCHANGED <<api_token, account_id, session_data, succeeded>>

\* search_emails without its check for an empty filter.
search_emails_unchecked(t, A) ==
    /\ FreeSlot(t)
    /\ \E a \in A :
         make_jmap_request(t, NewCall("search_emails", a),
                           QueryGetBatch(account_id, EmailFilter(a)))
    /\ UNCHANGED <<api_token, account_id, session_data, succeeded>>

\* Lines 445-497
search_emails(t, A) ==
    /\ FreeSlot(t)
    /\ \E a \in A :
         IF EmailFilter(a) = {}
         THEN Return(t, NewCall("search_emails", a), Out("EmptyCriteria", <<>>), "none", <<>>)
         ELSE make_jmap_request(t, NewCall("search_emails", a),
                                QueryGetBatch(account_id, EmailFilter(a)))
    /\ UNCHANGED <<api_token, account_id, session_data, succeeded>>

\* Lines 537-551
get_email_body(t, A) ==
    /\ FreeSlot(t)
    /\ \E a \in A :
         make_jmap_request(t, NewCall("get_email_body", a),
                           EmailGetBatch(account_id, a.emailId))
    /\ UNCHANGED <<api_token, account_id, session_data, succeeded>>

\* Lines 581-631
send_email(t, A) ==
    /\ FreeSlot(t)
    /\ \E a \in A :
         make_jmap_request(t, NewCall("send_email", a), SendBatch(account_id, a))
    /\ UNCHANGED <<api_token, account_id, session_data, succeeded>>

\* make_jmap_request posting the batch again after a non-200 status.
make_jmap_request_reply_retrying(t, shapes, rich) ==
    /\ task[t].pc = "req_post"
    /\ \E http \in {"ok", "status", "exception"} :
        LET cur == task[t] IN
        CASE http = "exception" -> Return(t, cur, Error("request failed"), http, <<>>)
          [] http = "status" ->
               IF cur.posts < 3
               THEN /\ task' = [task EXCEPT ![t].pc = "req_enter"]
                    /\ returned' = NoReturn
               ELSE Return(t, cur, Error("JMAP API error"), http, <<>>)
          [] OTHER ->
               /\ cur.hdr \in ValidTokens
               /\ \E mr \in Replies(cur.method_calls, shapes, rich) :
                    IF cur.stage = "resolve"
                    THEN LET found == resolve_mailbox_lookup(cur.args.mailboxName, mr)
                         IN  IF ~found.ok
                             THEN Return(t, cur, found.err, http, mr)
                             ELSE make_jmap_request(t, [cur EXCEPT !.stage = "main"],
                                                    GetEmailsBatch(account_id, found.id))
                    ELSE Return(t, cur, ToolResult(cur.name, cur.args, mr), http, mr)
    /\ UNCHANGED <<api_token, account_id, session_data, succeeded>>

\* make_jmap_request dropping the stored token when the API answers with a
\* non-200 status.
make_jmap_request_reply_forgetting(t, shapes, rich) ==
    /\ task[t].pc = "req_post"
    /\ \E http \in {"ok", "status", "exception"} :
        LET cur == task[t] IN
        /\ api_token' = IF http = "status" THEN None ELSE api_token
        /\ CASE http = "exception" -> Return(t, cur, Error("request failed"), http, <<>>)
             [] http = "status" -> Return(t, cur, Error("JMAP API error"), http, <<>>)
             [] OTHER ->
                  /\ cur.hdr \in ValidTokens
                  /\ \E mr \in Replies(cur.method_calls, shapes, rich) :
                       IF cur.stage = "resolve"
                       THEN LET found == resolve_mailbox_lookup(cur.args.mailboxName, mr)
                            IN  IF ~found.ok
                                THEN Return(t, cur, found.err, http, mr)
                                ELSE make_jmap_request(t, [cur EXCEPT !.stage = "main"],
                                                       GetEmailsBatch(account_id, found.id))
                       ELSE Return(t, cur, ToolResult(cur.name, cur.args, mr), http, mr)
    /\ UNCHANGED <<account_id, session_data, succeeded>>

\* Lines 282-285 and the caller's code after `await self.make_jmap_request`:
\* the reply of the POST.  A non-200 status or a transport exception ends
\* the tool call with an error; a 200 reply hands methodResponses to the
\* tool, which returns its result, or, in resolve_mailbox_id, goes on to
\* the batch of get_emails.  The service answers 200 only to a token it
\* accepts.
make_jmap_request_reply(t, shapes, rich) ==
    /\ task[t].pc = "req_post"
    /\ \E http \in {"ok", "status", "exception"} :
        LET cur == task[t] IN
        CASE http = "exception" -> Return(t, cur, Error("request failed"), http, <<>>)
          [] http = "status" -> Return(t, cur, Error("JMAP API error"), http, <<>>)
          [] OTHER ->
               /\ cur.hdr \in ValidTokens
               /\ \E mr \in Replies(cur.method_calls, shapes, rich) :
                    IF cur.stage = "resolve"
                    THEN LET found == resolve_mailbox_lookup(cur.args.mailboxName, mr)
                         IN  IF ~found.ok
                             THEN Return(t, cur, found.err, http, mr)
                             ELSE make_jmap_request(t, [cur EXCEPT !.stage = "main"],
                                                    GetEmailsBatch(account_id, found.id))
                    ELSE Return(t, cur, ToolResult(cur.name, cur.args, mr), http, mr)
    /\ UNCHANGED <<api_token, account_id, session_data, succeeded>>

\* The caller abandons the tool call while it is suspended at an await:
\* CancelledError ends the task; it is no Exception, so no result is built.
cancel(t) ==
    /\ task[t].pc # "idle"
    /\ Return(t, task[t], Out("Cancelled", <<>>), "cancelled", <<>>)
    /\ UNCHANGED <<api_token, account_id, session_data, succeeded>>

---------------------------------------------------------------------------
\* Tool calls a client makes.

\* configure_fastmail: a token the service accepts or not, with or without
\* an accountId.
ConfigureCalls ==
    {[NoArgs EXCEPT !.apiToken = tok] : tok \in {"t1", "t2", ""}}
        \cup {[NoArgs EXCEPT !.apiToken = "t2", !.accountId = "a3"]}

ListCalls == {NoArgs, [NoArgs EXCEPT !.role = "inbox"]}
FindCalls == {[NoArgs EXCEPT !.role = "archive"], [NoArgs EXCEPT !.name = "In"], NoArgs}
GetEmailsCalls ==
    {[NoArgs EXCEPT !.mailboxId = id, !.mailboxName = nm] :
        id \in {Absent, "M1"}, nm \in {Absent, "inbox", "Spam"}}
SearchCalls ==
    {NoArgs, [NoArgs EXCEPT !.keyword = "k"], [NoArgs EXCEPT !.keyword = ""],
     [NoArgs EXCEPT !.hasAttachment = "False"],
     [NoArgs EXCEPT !.keyword = "", !.subject = "s"],
     [NoArgs EXCEPT !.from_email = "f@x", !.to_email = "to@x", !.after = "2024-01-01"],
     [NoArgs EXCEPT !.mailboxId = "M1", !.before = "2024-01-10"]}
BodyCalls == {[NoArgs EXCEPT !.emailId = "E1"]}
SendCalls ==
    {[NoArgs EXCEPT !.to = to, !.cc = cc, !.bcc = bcc, !.subject = "s"] :
        to \in {<<>>, <<"to@x">>, <<"to@x", "to2@x">>},
        cc \in {<<>>, <<"cc@x">>}, bcc \in {<<>>, <<"bcc@x">>}}

\* The argument sets of every tool.
AllCalls ==
    [configure_fastmail |-> ConfigureCalls, list_mailboxes |-> ListCalls,
     find_mailbox |-> FindCalls, get_emails |-> GetEmailsCalls,
     search_emails |-> SearchCalls, get_email_body |-> BodyCalls,
     send_email |-> SendCalls]

\* A few of them: two accepted tokens, one without and one with an
\* accountId, and one call per mail tool, get_emails by name.
SomeCalls ==
    [configure_fastmail |->
        {[NoArgs EXCEPT !.apiToken = "t1"], [NoArgs EXCEPT !.apiToken = "t2", !.accountId = "a3"]},
     list_mailboxes |-> {NoArgs},
     find_mailbox |-> {[NoArgs EXCEPT !.role = "archive"]},
     get_emails |-> {[NoArgs EXCEPT !.mailboxName = "inbox"]},
     search_emails |-> {[NoArgs EXCEPT !.keyword = "k"]},
     get_email_body |-> BodyCalls,
     send_email |-> {[NoArgs EXCEPT !.to = <<"to@x">>, !.cc = <<"cc@x">>, !.subject = "s"]}]

---------------------------------------------------------------------------
\* Specifications

\* One step of task t: a tool call from calls starts, or a suspended call
\* goes on.  calls gives the argument sets per tool, shapes and rich the
\* replies the mail API may give.
Step(t, calls, shapes, rich) ==
    \/ configure_fastmail(t, calls.configure_fastmail)
    \/ configure_get(t)
    \/ configure_response(t)
    \/ configure_return(t)
    \/ list_mailboxes(t, calls.list_mailboxes)
    \/ find_mailbox(t, calls.find_mailbox)
    \/ get_emails(t, calls.get_emails)
    \/ search_emails(t, calls.search_emails)
    \/ get_email_body(t, calls.get_email_body)
    \/ send_email(t, calls.send_email)
    \/ make_jmap_request_post(t)
    \/ make_jmap_request_reply(t, shapes, rich)
    \/ cancel(t)

\* Tool calls overlap freely, as the server runs each in its own task.
Next == \E t \in Tasks : Step(t, SomeCalls, {"inorder"}, FALSE)

Spec == Init /\ [][Next]_vars

\* One tool call at a time, with every argument set and every reply.
AllIdle == \A t \in Tasks : task[t].pc = "idle"

NextOps ==
    \E t \in Tasks :
        /\ AllIdle \/ task[t].pc # "idle"
        /\ Step(t, AllCalls, Shapes, TRUE)

SpecOps == Init /\ [][NextOps]_vars

---------------------------------------------------------------------------
\* Properties

MailTools ==
    {"list_mailboxes", "find_mailbox", "get_emails", "search_emails",
     "get_email_body", "send_email"}

ConfigureInFlight == \E t \in Tasks : task[t].name = "configure_fastmail"

\* The <<token, accountId>> pairs configure calls supply together.
SuppliedPairs ==
    {<<a.apiToken, a.accountId>> : a \in {c \in ConfigureCalls : ~Falsy(c.accountId)}}

\* A credential and an account id that one configure call, run on its own,
\* stores together: an accepted token with its primary mail account or
\* with the accountId supplied next to it.
OnePair(tok, acct) ==
    /\ tok \in ValidTokens
    /\ acct = PrimaryOf(tok) \/ <<tok, acct>> \in SuppliedPairs

\* The labels of a batch / of methodResponses.
Labels(s) == {s[i].label : i \in 1..Len(s)}

\* C1: while a configure call is in progress, every request in flight
\* carries a token and an accountId that come from one configuration.
C1_RequestPairsOneConfiguration ==
    \A t \in Tasks :
        (task[t].pc = "req_post" /\ ConfigureInFlight) =>
            \A i \in 1..Len(task[t].method_calls) :
                OnePair(task[t].hdr, task[t].method_calls[i].accountId)

\* C2: once overlapping configure calls, none of which failed, have all
\* returned, the stored token and account id are the pair of one call.
C2_OverlappingConfiguresLeaveOnePair ==
    (/\ returned.name = "configure_fastmail"
     /\ returned.out.kind = "Configured"
     /\ returned.peers = "overlap"
     /\ ~ConfigureInFlight)
        => OnePair(api_token, account_id)

\* C3: a configure call that fails (non-200, exception, no primary mail
\* account), with no other configure call around, has changed no session
\* field.
C3_FailedConfigureChangesNothing ==
    (/\ returned.name = "configure_fastmail"
     /\ returned.out.kind = "Error"
     /\ returned.peers = "none")
        => ~returned.changed

\* C4: the result of a two-call batch is the same when methodResponses
\* holds the same entries in reversed order.
C4_ResultIndependentOfOrder ==
    (/\ returned.name \in {"get_emails", "search_emails", "send_email"}
     /\ returned.stage = "main"
     /\ returned.http = "ok"
     /\ Len(returned.reply) = 2
     /\ Labels(returned.reply) = Labels(returned.method_calls))
        => returned.out = ToolResult(returned.name, returned.args, Reverse(returned.reply))

\* C5: when methodResponses lacks a label of the batch that was sent, the
\* tool call ends in a failure naming a missing label.
C5_MissingLabelReported ==
    (/\ returned.name \in MailTools
     /\ returned.http = "ok"
     /\ ~(Labels(returned.method_calls) \subseteq Labels(returned.reply)))
        => \E l \in Labels(returned.method_calls) \ Labels(returned.reply) :
              returned.out = Out("Error", <<"MissingLabel", l>>)

\* The Email/set entry of methodResponses reports that the draft was not
\* created: an empty created map and a notCreated entry for "draft".
DraftFailed(mr) ==
    \E i \in 1..Len(mr) :
        /\ mr[i].label = "e"
        /\ mr[i].payload.created = <<>>
        /\ "notCreated" \in mr[i].payload.keys
        /\ \E j \in 1..Len(mr[i].payload.notCreated) : mr[i].payload.notCreated[j].key = "draft"

\* The server's description for the draft that was not created.
DraftDescription(mr) ==
    LET i == CHOOSE k \in 1..Len(mr) : mr[k].label = "e"
        j == CHOOSE k \in 1..Len(mr[i].payload.notCreated) :
                 mr[i].payload.notCreated[k].key = "draft"
    IN  mr[i].payload.notCreated[j].description

SendWithFailedDraft ==
    /\ returned.name = "send_email"
    /\ returned.http = "ok"
    /\ DraftFailed(returned.reply)

C7_SendNeverRetried ==
    /\ \A t \in Tasks : task[t].name = "send_email" => task[t].subs <= 1
    /\ returned.name = "send_email" => returned.subs <= 1

C7_Witness ==
    /\ returned.name = "send_email"
    /\ returned.http = "status"
    /\ returned.subs = 1

\* C8: a mail tool call never posts a second batch, and one that got as
\* far as a round trip has posted exactly one.
C8_OneBatchPerCall ==
    /\ \A t \in Tasks : task[t].name \in MailTools => task[t].posts <= 1
    /\ (returned.name \in MailTools /\ returned.http \in {"ok", "status", "exception"})
          => returned.posts = 1

\* C9 as claimed: while no configure call has succeeded, no mail tool call
\* has a request under way and each ends with the not-configured error.
C9_AlwaysNotConfigured ==
    ~succeeded =>
        /\ \A t \in Tasks : task[t].name \notin MailTools
        /\ returned.name \in MailTools =>
              /\ returned.posts = 0
              /\ returned.out = Error(NotConfiguredMsg)

\* What a mail tool call returns before any configure call has succeeded:
\* the not-configured error, unless the arguments are turned down before
\* the batch is built.
UnconfiguredResult(name, a) ==
    IF name = "search_emails" /\ EmailFilter(a) = {}
    THEN Out("EmptyCriteria", <<>>)
    ELSE IF name = "get_emails" /\ Falsy(a.mailboxId) /\ Falsy(a.mailboxName)
    THEN Error("Either mailboxId or mailboxName must be provided")
    ELSE Error(NotConfiguredMsg)

\* C9 as amended: while no configure call has succeeded, no mail tool call
\* has a request under way, and each ends with the not-configured error,
\* except search_emails without a criterion (the empty-criteria message)
\* and get_emails without mailboxId and mailboxName (its own error).
C9_UnconfiguredSendsNothing ==
    ~succeeded =>
        /\ \A t \in Tasks : task[t].name \notin MailTools
        /\ returned.name \in MailTools =>
              /\ returned.posts = 0
              /\ returned.out = UnconfiguredResult(returned.name, returned.args)

C9_Witness ==
    /\ ~succeeded
    /\ api_token \in ValidTokens
    /\ returned.name = "send_email"
    /\ returned.out = Error(NotConfiguredMsg)

\* C10: when configure_fastmail returns its success result the session
\* holds a non-empty token and a non-empty account id: the supplied
\* accountId, or else the primary mail account of the bootstrap reply.
C10_SuccessHoldsOwnAccount ==
    (returned.name = "configure_fastmail" /\ returned.out.kind = "Configured") =>
        /\ ~Falsy(api_token)
        /\ ~Falsy(account_id)
        /\ account_id = IF ~Falsy(returned.args.accountId)
                        THEN returned.args.accountId
                        ELSE PrimaryOf(returned.hdr)

\* A batch is well formed: it has a call, no two calls share a label, and
\* every back-reference names the label and the method of a call that
\* stands strictly earlier in the batch.
WellFormed(mc) ==
    /\ Len(mc) >= 1
    /\ \A i, j \in 1..Len(mc) : i # j => mc[i].label # mc[j].label
    /\ \A i \in 1..Len(mc) : \A r \in mc[i].refs :
          \E j \in 1..(i - 1) : mc[j].label = r.resultOf /\ mc[j].name = r.name

\* C11: every batch handed to the transport (waiting for the client, or
\* posted) is well formed.
C11_BatchesWellFormed ==
    /\ \A t \in Tasks :
          task[t].pc \in {"req_enter", "req_post"} => WellFormed(task[t].method_calls)
    /\ returned.posts > 0 => WellFormed(returned.method_calls)

C11_Witness ==
    \E t \in Tasks :
        /\ task[t].pc = "req_post"
        /\ task[t].name = "search_emails"
        /\ \E i \in 1..Len(task[t].method_calls) : task[t].method_calls[i].refs # {}

\* The addresses of a list of {"email": addr} objects.
AddressesOf(list) == [i \in 1..Len(list) |-> list[i].email]

\* mc is the batch of a send for the arguments a: Email/set e, then
\* EmailSubmission/set s referring to e at /created/draft/id, with the
\* envelope recipients to, cc, bcc in that order.
SendShape(mc, a) ==
    /\ Len(mc) = 2
    /\ mc[1].name = "Email/set" /\ mc[1].label = "e"
    /\ mc[2].name = "EmailSubmission/set" /\ mc[2].label = "s"
    /\ mc[2].refs = {[arg |-> "emailId", resultOf |-> "e",
                      name |-> "Email/set", path |-> "/created/draft/id"]}
    /\ AddressesOf(mc[2].create.rcptTo) = a.to \o a.cc \o a.bcc

\* C12: the batch of every send_email call is Email/set e followed by
\* EmailSubmission/set s, s's emailId a back-reference to e at
\* /created/draft/id, and rcptTo the caller's to, cc and bcc lists
\* concatenated in that order.
C12_SendBatchAsSpecified ==
    /\ \A t \in Tasks :
          task[t].name = "send_email" => SendShape(task[t].method_calls, task[t].args)
    /\ returned.name = "send_email" => SendShape(returned.method_calls, returned.args)

C12_Witness ==
    \E t \in Tasks :
        /\ task[t].name = "send_email"
        /\ task[t].pc = "req_post"
        /\ task[t].args.to = <<"to@x", "to2@x">>
        /\ task[t].args.cc = <<"cc@x">>
        /\ task[t].args.bcc = <<"bcc@x">>

\* The predicate keys of the criteria whose key is present in the
\* arguments, whatever the value.
SuppliedKeys(a) ==
    UNION {
      IF a.keyword = Absent THEN {} ELSE {"text"},
      IF a.from_email = Absent THEN {} ELSE {"from"},
      IF a.to_email = Absent THEN {} ELSE {"to"},
      IF a.subject = Absent THEN {} ELSE {"subject"},
      IF a.mailboxId = Absent THEN {} ELSE {"inMailbox"},
      IF a.hasAttachment = Absent THEN {} ELSE {"hasAttachment"},
      IF a.before = Absent THEN {} ELSE {"before"},
      IF a.after = Absent THEN {} ELSE {"after"} }

\* The keys of a filter.
FilterKeys(filter) == {f[1] : f \in filter}

\* C13: the filter of the Email/query call that search_emails sends holds
\* exactly the predicate keys of the criteria present in the arguments.
C13_FilterHasSuppliedKeys ==
    \A t \in Tasks :
        (task[t].name = "search_emails" /\ task[t].pc \in {"req_enter", "req_post"}) =>
            FilterKeys(task[t].method_calls[1].filter) = SuppliedKeys(task[t].args)

\* No search criterion is active: every criterion is missing or empty, and
\* hasAttachment is missing.
NoActiveCriterion(a) ==
    /\ \A v \in {a.keyword, a.from_email, a.to_email, a.subject,
                  a.mailboxId, a.before, a.after} : Falsy(v)
    /\ a.hasAttachment = Absent

\* C14: search_emails without an active criterion ends with the
\* empty-criteria message and has posted nothing, and no Email/query call
\* handed to the transport has an empty filter.
C14_EmptyCriteriaRefused ==
    /\ (returned.name = "search_emails" /\ NoActiveCriterion(returned.args)) =>
          /\ returned.out = Out("EmptyCriteria", <<>>)
          /\ returned.posts = 0
    /\ \A t \in Tasks :
          /\ (task[t].name = "search_emails" /\ task[t].pc # "idle") =>
                ~NoActiveCriterion(task[t].args)
          /\ task[t].pc \in {"req_enter", "req_post"} =>
                \A i \in 1..Len(task[t].method_calls) :
                    task[t].method_calls[i].name = "Email/query" =>
                        task[t].method_calls[i].filter # {}

C14_Witness ==
    /\ succeeded
    /\ returned.name = "search_emails"
    /\ returned.args.keyword = ""
    /\ returned.out = Out("EmptyCriteria", <<>>)

\* The round trip of a send_email succeeded: a 200 reply whose
\* methodResponses are the Email/set payload labelled e and the
\* EmailSubmission/set payload labelled s, in the order of the batch.
SendRoundTripDone ==
    /\ returned.name = "send_email"
    /\ returned.http = "ok"
    /\ Len(returned.reply) = 2
    /\ returned.reply[1].label = "e"
    /\ returned.reply[2].label = "s"

\* C15: after a successful round trip send_email returns the success
\* message or a failure message built from a notCreated entry, never the
\* text of a raised exception, whatever created / notCreated hold.
C15_SendOutcomeAlwaysReturned ==
    SendRoundTripDone => returned.out.kind \in {"Sent", "FailedCreate", "FailedSend"}

\* C16: a send_email call with an empty to list never posts a batch that
\* holds an EmailSubmission/set call, whatever cc and bcc are.
C16_EmptyToNeverSubmitted ==
    /\ \A t \in Tasks :
          (task[t].name = "send_email" /\ task[t].args.to = <<>>) => task[t].subs = 0
    /\ (returned.name = "send_email" /\ returned.args.to = <<>>) => returned.subs = 0

\* The session fields.
session == <<api_token, account_id, session_data>>

\* This step belongs to a mail tool call: a mail tool call returns in it,
\* or the task of one begins, moves on or ends.
MailToolStep ==
    \/ returned'.name \in MailTools
    \/ \E t \in Tasks :
          /\ task'[t] # task[t]
          /\ task[t].name \in MailTools \/ task'[t].name \in MailTools

\* C17: no step of a list_mailboxes, find_mailbox, get_emails,
\* search_emails, get_email_body or send_email call, whether the call
\* succeeds or fails, changes the stored token, account id or session
\* data.
C17_MailToolsLeaveSession ==
    [][MailToolStep => UNCHANGED session]_vars

C17_Witness ==
    /\ returned.name = "send_email"
    /\ returned.http = "status"
    /\ returned.posts = 1
    /\ api_token = "t2"
    /\ account_id = "a3"
    /\ session_data = SessionReply("t2", TRUE)

====
